---- MODULE Spec2Model ----
(***************************************************************************)
(* Model of scripts/cen6_duplication.py (centroFlye): the k-mer cloud      *)
(* builder, the position-indexed cloud contig and its scorer, the variant  *)
(* scorer, the combinatorial placement search and the location patcher.    *)
(***************************************************************************)
EXTENDS Integers, Sequences, FiniteSets, TLC

VARIABLES
    \* ---- ReadKMerCloud.from_monoread ----
    monoread,        \* the read: [seq_id, monoinstances (their nucl_segment)]
    k,               \* k-mer length
    max_mult,        \* within-read multiplicity ceiling
    read_cloud,      \* the built ReadKMerCloud ([r_id, kmers]) or NoCloud
    \* ---- one SpecialCloudContig index ----
    cloud_contig,    \* [min_cloud_kmer_freq, clouds, kmer_positions, freq_kmers]
    added,           \* the add_read calls made so far, as a bag of placements
    \* ---- main: get_best_variant and the patching of locations ----
    nrepeat,                \* params.nrepeat
    q_ids,                  \* ambiguous read ids, in main's order
    certain_rids,           \* certain read ids, in main's order
    all_read_kmer_clouds,   \* r_id -> ReadKMerCloud
    locations,              \* r_id -> list of <<start, end>>
    cloud_contig_minfreq,   \* params.cloud_contig_minfreq
    n_threads,              \* workers of the joblib pool
    variants,               \* list(product([0, 1], repeat=nrepeat))
    tasks,                  \* per variant index: the var_assess_quality call
    completed,              \* variant indices in the order their calls ended
    best_variant,           \* what get_best_variant returned
    phase,                  \* where main is
    repatched,              \* outcome of running the patch step once more
    mapped                  \* the table as the mapper returned it (line 202)

cloudVars == <<monoread, k, max_mult, read_cloud>>
indexVars == <<cloud_contig, added>>
inputVars == <<nrepeat, q_ids, certain_rids, all_read_kmer_clouds,
               cloud_contig_minfreq, n_threads, mapped>>
mainVars  == <<nrepeat, q_ids, certain_rids, all_read_kmer_clouds, locations,
               cloud_contig_minfreq, n_threads, variants, tasks, completed,
               best_variant, phase, repatched, mapped>>
vars      == <<cloudVars, indexVars, mainVars>>

----------------------------------------------------------------------------
(* Bounds of the model *)
MaxUnits   == 2      \* monomer instances per read
MaxUnitLen == 3      \* nucleotides per monomer instance
MaxK       == 2      \* k in -MaxNegK..MaxK
MaxNegK    == 2      \* negative values of k (--k is any int)
MaxMult    == 3      \* ceilings 0..MaxMult
MaxAdds    == 5      \* add_read calls on the index under study
MaxMinFreq == 4      \* cutoffs 0..MaxMinFreq of the index under study
MaxMaxFreq == 2      \* get_score thresholds 0..MaxMaxFreq
MaxRepeat  == 2      \* nrepeat in 0..MaxRepeat
MaxThreads == 2      \* n_threads in 1..MaxThreads
MaxCutoff  == 1      \* cloud_contig_minfreq in 0..MaxCutoff during the search

Nucleotides == {"A", "C"}

Range(f) == {f[x] : x \in DOMAIN f}

Max(a, b) == IF a >= b THEN a ELSE b

SeqsUpTo(S, n) == UNION {[1..m -> S] : m \in 0..n}

\* collections.Counter lookup: a missing key counts 0
CounterGet(cnt, key) == IF key \in DOMAIN cnt THEN cnt[key] ELSE 0

\* Counter[key] += n
CounterAdd(cnt, key, n) ==
    [x \in DOMAIN cnt \cup {key} |->
        IF x = key THEN CounterGet(cnt, key) + n ELSE cnt[x]]

EmptyCounter == [x \in {} |-> 0]

----------------------------------------------------------------------------
(* ReadKMerCloud (lines 80-105) *)

\* Python's s[b:e] for 0 <= b: a negative e counts from the end of s, both
\* ends are clamped to the string, and an end at or before b gives ''
Slice(s, b, e) ==
    LET n     == Len(s)
        start == IF b > n THEN n ELSE b
        stop  == IF e < 0 THEN Max(e + n, 0) ELSE IF e > n THEN n ELSE e
    IN  IF stop <= start THEN <<>> ELSE SubSeq(s, start + 1, stop)

\* nucl_segment[i:i+k] for i in range(len(nucl_segment)-k+1); the i-th entry
\* here is the window at Python's index i - 1
Windows(nucl_segment, kk) ==
    [i \in 1..Max(Len(nucl_segment) - kk + 1, 0) |->
        Slice(nucl_segment, i - 1, i - 1 + kk)]

\* kmer_cnt = Counter(windows)
KmerCnt(nucl_segment, kk) ==
    LET w == Windows(nucl_segment, kk)
    IN  [kmer \in Range(w) |-> Cardinality({i \in DOMAIN w : w[i] = kmer})]

UnitKmersMutGe(nucl_segment, kk) ==
    LET kmer_cnt == KmerCnt(nucl_segment, kk)
    IN  {kmer \in DOMAIN kmer_cnt : kmer_cnt[kmer] >= 1}

\* kmers = {kmer for kmer, cnt in kmer_cnt.items() if cnt == 1}
UnitKmers(nucl_segment, kk) ==
    LET kmer_cnt == KmerCnt(nucl_segment, kk)
    IN  {kmer \in DOMAIN kmer_cnt : kmer_cnt[kmer] = 1}

\* for kmer in kmers: all_kmer_cnt[kmer] += 1
RECURSIVE CountSet(_, _)
CountSet(cnt, kmers) ==
    IF kmers = {} THEN cnt
    ELSE LET kmer == CHOOSE x \in kmers : TRUE
         IN  CountSet(CounterAdd(cnt, kmer, 1), kmers \ {kmer})

\* the first loop of from_monoread: [all_kmers, all_kmer_cnt] after units i..
RECURSIVE FirstPass(_, _, _, _, _)
FirstPass(monoinstances, kk, i, all_kmers, all_kmer_cnt) ==
    IF i > Len(monoinstances)
    THEN [all_kmers |-> all_kmers, all_kmer_cnt |-> all_kmer_cnt]
    ELSE LET kmers == UnitKmers(monoinstances[i], kk)
         IN  FirstPass(monoinstances, kk, i + 1,
                       Append(all_kmers, kmers),
                       CountSet(all_kmer_cnt, kmers))

\* ReadKMerCloud.__init__: all_kmers is the concatenation of the unit sets,
\* kept here as a Counter kmer -> number of units holding it
RECURSIVE Flatten(_, _, _)
Flatten(kmers, i, acc) ==
    IF i > Len(kmers) THEN acc
    ELSE Flatten(kmers, i + 1, CountSet(acc, kmers[i]))

ReadKMerCloud(kmers, r_id) ==
    [r_id |-> r_id, kmers |-> kmers, all_kmers |-> Flatten(kmers, 1, EmptyCounter)]

from_monoread(mr, kk, mm) ==
    LET p == FirstPass(mr.monoinstances, kk, 1, <<>>, EmptyCounter)
        filtered == [i \in 1..Len(p.all_kmers) |->
                        {kmer \in p.all_kmers[i] :
                            CounterGet(p.all_kmer_cnt, kmer) < mm}]
    IN  ReadKMerCloud(filtered, mr.seq_id)

NoCloud == [r_id |-> "none", kmers |-> <<>>, all_kmers |-> EmptyCounter]

MonoReads ==
    {[seq_id |-> "read", monoinstances |-> u] :
        u \in SeqsUpTo(SeqsUpTo(Nucleotides, MaxUnitLen), MaxUnits)}

InitCloud ==
    /\ monoread \in MonoReads
    /\ k \in (0 - MaxNegK)..MaxK
    /\ max_mult \in 0..MaxMult
    /\ read_cloud = NoCloud

BuildCloud ==
    /\ read_cloud = NoCloud
    /\ read_cloud' = from_monoread(monoread, k, max_mult)
    /\ UNCHANGED <<monoread, k, max_mult>>
    /\ UNCHANGED <<indexVars, mainVars>>

----------------------------------------------------------------------------
(* CloudContig (cloud_contig.py, outside the sources at hand): constructor,
   add_read and the maintenance of freq_kmers follow the design document,
   section 4.3 *)

CloudContig(min_freq) ==
    [min_cloud_kmer_freq |-> min_freq,
     clouds              |-> [p \in {} |-> EmptyCounter],
     kmer_positions      |-> [x \in {} |-> {}],
     freq_kmers          |-> {}]

RECURSIVE SumOver(_, _)
SumOver(f, S) ==
    IF S = {} THEN 0
    ELSE LET x == CHOOSE y \in S : TRUE
         IN  f[x] + SumOver(f, S \ {x})

\* clouds[pos][kmer] on a defaultdict(Counter)
CloudCount(cl, pos, kmer) ==
    IF pos \in DOMAIN cl THEN CounterGet(cl[pos], kmer) ELSE 0

TotalCount(cl, kmer) ==
    SumOver([p \in DOMAIN cl |-> CloudCount(cl, p, kmer)], DOMAIN cl)

\* add_read(read_kmer_cloud, position)
add_read(cc, cloud, position) ==
    LET ak == cloud.all_kmers
        cl == IF DOMAIN ak = {} THEN cc.clouds
              ELSE [p \in DOMAIN cc.clouds \cup {position} |->
                      IF p = position
                      THEN [kmer \in (IF p \in DOMAIN cc.clouds
                                      THEN DOMAIN cc.clouds[p] ELSE {})
                                     \cup DOMAIN ak |->
                              CloudCount(cc.clouds, p, kmer) + CounterGet(ak, kmer)]
                      ELSE cc.clouds[p]]
        kp == [kmer \in DOMAIN cc.kmer_positions \cup DOMAIN ak |->
                 (IF kmer \in DOMAIN cc.kmer_positions
                  THEN cc.kmer_positions[kmer] ELSE {})
                 \cup (IF kmer \in DOMAIN ak THEN {position} ELSE {})]
    IN  [min_cloud_kmer_freq |-> cc.min_cloud_kmer_freq,
         clouds              |-> cl,
         kmer_positions      |-> kp,
         freq_kmers          |-> {kmer \in DOMAIN kp :
                                    TotalCount(cl, kmer) > cc.min_cloud_kmer_freq}]

----------------------------------------------------------------------------
(* SpecialCloudContig.get_score (lines 115-126) *)

RECURSIVE CountAboveMutGe(_, _, _, _, _)
CountAboveMutGe(cc, kmer, max_freq, todo, cnt) ==
    IF todo = {} THEN cnt
    ELSE LET pos == CHOOSE p \in todo : TRUE
         IN  CountAboveMutGe(cc, kmer, max_freq, todo \ {pos},
                             IF CloudCount(cc.clouds, pos, kmer) >= max_freq
                             THEN cnt + 1 ELSE cnt)

\* the inner loop: cnt after visiting the positions in todo
RECURSIVE CountAbove(_, _, _, _, _)
CountAbove(cc, kmer, max_freq, todo, cnt) ==
    IF todo = {} THEN cnt
    ELSE LET pos == CHOOSE p \in todo : TRUE
         IN  CountAbove(cc, kmer, max_freq, todo \ {pos},
                        IF CloudCount(cc.clouds, pos, kmer) > max_freq
                        THEN cnt + 1 ELSE cnt)

KmerPositions(cc, kmer) ==
    IF kmer \in DOMAIN cc.kmer_positions THEN cc.kmer_positions[kmer] ELSE {}

\* the outer loop: score after visiting the k-mers in todo
RECURSIVE ScoreLoop(_, _, _, _)
ScoreLoop(cc, max_freq, todo, score) ==
    IF todo = {} THEN score
    ELSE LET kmer == CHOOSE x \in todo : TRUE
             cnt  == CountAbove(cc, kmer, max_freq, KmerPositions(cc, kmer), 0)
         IN  ScoreLoop(cc, max_freq, todo \ {kmer},
                       IF cnt = 1 THEN score + 1 ELSE score)

RECURSIVE ScoreLoopMutAny(_, _, _, _)
ScoreLoopMutAny(cc, max_freq, todo, score) ==
    IF todo = {} THEN score
    ELSE LET kmer == CHOOSE x \in todo : TRUE
             cnt  == CountAbove(cc, kmer, max_freq, KmerPositions(cc, kmer), 0)
         IN  ScoreLoopMutAny(cc, max_freq, todo \ {kmer},
                             IF cnt >= 1 THEN score + 1 ELSE score)

get_scoreMutAny(cc, max_freq) == ScoreLoopMutAny(cc, max_freq, cc.freq_kmers, 0)

get_score(cc, max_freq) == ScoreLoop(cc, max_freq, cc.freq_kmers, 0)

----------------------------------------------------------------------------
(* The index under study: add_read calls in any order *)

Positions == {100, 200}

IndexClouds ==
    {ReadKMerCloud(<<{"a"}>>, "x1"),
     ReadKMerCloud(<<{"b"}>>, "x2"),
     ReadKMerCloud(<<{"a"}, {"a", "b"}>>, "x3")}

BagSize(bag) == SumOver(bag, DOMAIN bag)

InitIndex ==
    /\ cloud_contig \in {CloudContig(m) : m \in 0..MaxMinFreq}
    /\ added = EmptyCounter

AddRead(cloud, position) ==
    /\ BagSize(added) < MaxAdds
    /\ cloud_contig' = add_read(cloud_contig, cloud, position)
    /\ added' = CounterAdd(added, [cloud |-> cloud, position |-> position], 1)
    /\ UNCHANGED <<cloudVars, mainVars>>

----------------------------------------------------------------------------
(* var_assess_quality (lines 129-140) *)

Min(a, b) == IF a <= b THEN a ELSE b

PrefixMutAll(ids, variant) == ids

\* q_ids[:len(variant)]
Prefix(ids, variant) == SubSeq(ids, 1, Min(Len(variant), Len(ids)))

\* lines 131-134: a fresh index holding the certain reads
RECURSIVE AddCertain(_, _, _, _, _)
AddCertain(cc, rids, kmer_clouds, locs, i) ==
    IF i > Len(rids) THEN cc
    ELSE AddCertain(add_read(cc, kmer_clouds[rids[i]], locs[rids[i]][1][1]),
                    rids, kmer_clouds, locs, i + 1)

\* line 137 with the bit read the wrong way round
AmbiguousLocMutFlip(variant, ids, locs, i) == locs[ids[i]][(1 - variant[i]) + 1][1]

\* line 137: loc = locations[q_id][variant[i]][0]
AmbiguousLoc(variant, ids, locs, i) == locs[ids[i]][variant[i] + 1][1]

\* lines 136-139, from the i-th ambiguous read on
RECURSIVE AddAmbiguous(_, _, _, _, _, _)
AddAmbiguous(cc, variant, ids, kmer_clouds, locs, i) ==
    IF i > Len(Prefix(ids, variant)) THEN cc
    ELSE AddAmbiguous(add_read(cc, kmer_clouds[ids[i]],
                               AmbiguousLoc(variant, ids, locs, i)),
                      variant, ids, kmer_clouds, locs, i + 1)

var_assess_quality(variant, ids, rids, kmer_clouds, locs, minfreq) ==
    LET certain    == AddCertain(CloudContig(minfreq), rids, kmer_clouds, locs, 1)
        base_score == get_score(certain, 0)
        after      == AddAmbiguous(certain, variant, ids, kmer_clouds, locs, 1)
    IN  get_score(after, 0) - base_score

----------------------------------------------------------------------------
(* get_best_variant (lines 143-162) *)

\* itertools.product([0, 1], repeat=n), as a list
RECURSIVE product(_)
product(n) ==
    IF n = 0 THEN << <<>> >>
    ELSE LET r == product(n - 1)
         IN  [i \in 1..(2 * Len(r)) |-> Append(r[(i + 1) \div 2], (i + 1) % 2)]

RECURSIVE ArgmaxLoopMutLast(_, _, _)
ArgmaxLoopMutLast(s, i, best) ==
    IF i > Len(s) THEN best
    ELSE ArgmaxLoopMutLast(s, i + 1, IF s[i] >= s[best] THEN i ELSE best)

argmaxMutLast(s) == ArgmaxLoopMutLast(s, 2, 1)

\* np.argmax: the first index holding the maximum (1-based here)
RECURSIVE ArgmaxLoop(_, _, _)
ArgmaxLoop(s, i, best) ==
    IF i > Len(s) THEN best
    ELSE ArgmaxLoop(s, i + 1, IF s[i] > s[best] THEN i ELSE best)

argmax(s) == ArgmaxLoop(s, 2, 1)

PendingTask == [pc |-> "pending", cloud_contig |-> CloudContig(0),
                base_score |-> 0, i |-> 0, score |-> 0]

Running == {t \in DOMAIN tasks : tasks[t].pc = "running"}

scoresMutCompletion == [i \in DOMAIN tasks |-> tasks[completed[i]].score]

\* what Parallel(...)(...) returns: the results in the order of the variants
scores == [t \in DOMAIN tasks |-> tasks[t].score]

\* a worker takes the next variant and runs lines 131-135 of its call
Dispatch(t) ==
    /\ phase = "search"
    /\ tasks[t].pc = "pending"
    /\ \A u \in 1..(t - 1) : tasks[u].pc # "pending"
    /\ Cardinality(Running) < n_threads
    /\ LET cc == AddCertain(CloudContig(cloud_contig_minfreq), certain_rids,
                            all_read_kmer_clouds, locations, 1)
       IN  tasks' = [tasks EXCEPT ![t] =
                        [pc |-> "running", cloud_contig |-> cc,
                         base_score |-> get_score(cc, 0), i |-> 1, score |-> 0]]
    /\ UNCHANGED <<inputVars, locations, variants, completed, best_variant,
                   phase, repatched>>
    /\ UNCHANGED <<cloudVars, indexVars>>

\* one iteration of the loop of lines 136-139
PlaceAmbiguous(t) ==
    /\ phase = "search"
    /\ tasks[t].pc = "running"
    /\ tasks[t].i <= Len(Prefix(q_ids, variants[t]))
    /\ tasks' = [tasks EXCEPT
                    ![t].cloud_contig =
                        add_read(@, all_read_kmer_clouds[q_ids[tasks[t].i]],
                                 AmbiguousLoc(variants[t], q_ids, locations,
                                              tasks[t].i)),
                    ![t].i = @ + 1]
    /\ UNCHANGED <<inputVars, locations, variants, completed, best_variant,
                   phase, repatched>>
    /\ UNCHANGED <<cloudVars, indexVars>>

\* line 140 without the subtraction of base_score
FinishMutNoBase(t) ==
    /\ phase = "search"
    /\ tasks[t].pc = "running"
    /\ tasks[t].i > Len(Prefix(q_ids, variants[t]))
    /\ tasks' = [tasks EXCEPT
                    ![t].pc = "done",
                    ![t].score = get_score(tasks[t].cloud_contig, 0)]
    /\ completed' = Append(completed, t)
    /\ UNCHANGED <<inputVars, locations, variants, best_variant, phase,
                   repatched>>
    /\ UNCHANGED <<cloudVars, indexVars>>

\* line 140: the call returns its score
Finish(t) ==
    /\ phase = "search"
    /\ tasks[t].pc = "running"
    /\ tasks[t].i > Len(Prefix(q_ids, variants[t]))
    /\ tasks' = [tasks EXCEPT
                    ![t].pc = "done",
                    ![t].score = get_score(tasks[t].cloud_contig, 0)
                                 - tasks[t].base_score]
    /\ completed' = Append(completed, t)
    /\ UNCHANGED <<inputVars, locations, variants, best_variant, phase,
                   repatched>>
    /\ UNCHANGED <<cloudVars, indexVars>>

\* lines 160-162, once Parallel has every result
Return ==
    /\ phase = "search"
    /\ \A t \in DOMAIN tasks : tasks[t].pc = "done"
    /\ best_variant' = variants[argmax(scores)]
    /\ phase' = "returned"
    /\ UNCHANGED <<inputVars, locations, variants, tasks, completed, repatched>>
    /\ UNCHANGED <<cloudVars, indexVars>>

----------------------------------------------------------------------------
(* main, lines 242-248: patching the locations *)

\* lines 243-245 with the bit read the wrong way round
RECURSIVE PatchLoopMutFlip(_, _, _, _)
PatchLoopMutFlip(locs, variant, ids, i) ==
    IF i > Len(Prefix(ids, variant)) THEN [raised |-> FALSE, locations |-> locs]
    ELSE IF \/ i > Len(variant)
            \/ ids[i] \notin DOMAIN locs
            \/ (1 - variant[i]) + 1 > Len(locs[ids[i]])
         THEN [raised |-> TRUE, locations |-> locs]
         ELSE PatchLoopMutFlip(
                  [locs EXCEPT ![ids[i]] = << locs[ids[i]][(1 - variant[i]) + 1] >>],
                  variant, ids, i + 1)

\* lines 243-245 from the i-th entry on; an index out of range raises
RECURSIVE PatchLoop(_, _, _, _)
PatchLoop(locs, variant, ids, i) ==
    IF i > Len(Prefix(ids, variant)) THEN [raised |-> FALSE, locations |-> locs]
    ELSE IF \/ i > Len(variant)
            \/ ids[i] \notin DOMAIN locs
            \/ variant[i] + 1 > Len(locs[ids[i]])
         THEN [raised |-> TRUE, locations |-> locs]
         ELSE PatchLoop([locs EXCEPT ![ids[i]] = << locs[ids[i]][variant[i] + 1] >>],
                        variant, ids, i + 1)

\* lines 247-248
OnlySingle(locs) == [r \in {x \in DOMAIN locs : Len(locs[x]) = 1} |-> locs[r]]

NotRepatched == [raised |-> FALSE, locations |-> <<>>]

PatchLocations ==
    /\ phase = "returned"
    /\ LET p == PatchLoop(locations, best_variant, q_ids, 1)
       IN  /\ locations' = p.locations
           /\ phase' = IF p.raised THEN "raised" ELSE "patched"
    /\ UNCHANGED <<inputVars, variants, tasks, completed, best_variant, repatched>>
    /\ UNCHANGED <<cloudVars, indexVars>>

FilterLocations ==
    /\ phase = "patched"
    /\ locations' = OnlySingle(locations)
    /\ phase' = "filtered"
    /\ UNCHANGED <<inputVars, variants, tasks, completed, best_variant, repatched>>
    /\ UNCHANGED <<cloudVars, indexVars>>

\* the patch step (lines 243-248) applied to its own output
PatchAgain ==
    /\ phase = "filtered"
    /\ LET p == PatchLoop(locations, best_variant, q_ids, 1)
       IN  repatched' = [raised |-> p.raised,
                         locations |-> IF p.raised THEN p.locations
                                       ELSE OnlySingle(p.locations)]
    /\ phase' = "repatched"
    /\ UNCHANGED <<inputVars, locations, variants, tasks, completed, best_variant>>
    /\ UNCHANGED <<cloudVars, indexVars>>

----------------------------------------------------------------------------
(* Inputs and specifications *)

CertainReads   == {"c1", "c2"}
AmbiguousReads == {"q1", "q2"}

Loc100 == <<100, 110>>
Loc200 == <<200, 210>>

DistinctSeqs(S) ==
    {s \in SeqsUpTo(S, Cardinality(S)) :
        \A i, j \in DOMAIN s : i # j => s[i] # s[j]}

\* freshly mapped tables: one location for a certain read, two candidates
\* for an ambiguous one
MappedTables ==
    {[r \in CertainReads \cup AmbiguousReads |->
        IF r = "c1" THEN <<l>>
        ELSE IF r = "c2" THEN <<Loc200>>
        ELSE <<Loc100, Loc200>>] : l \in {Loc100, Loc200}}

KmerCloudTables ==
    {[r \in CertainReads \cup AmbiguousReads |->
        IF r = "c1" THEN ReadKMerCloud(c1, r)
        ELSE IF r = "c2" THEN ReadKMerCloud(<<{"b"}>>, r)
        ELSE IF r = "q1" THEN ReadKMerCloud(<<{"a"}>>, r)
        ELSE ReadKMerCloud(q2, r)] :
        c1 \in {<<{"a"}>>, <<{"a", "b"}>>},
        q2 \in {<<{"b"}>>, <<{"a"}, {"b"}>>}}

IdleCloud ==
    /\ monoread = [seq_id |-> "read", monoinstances |-> <<>>]
    /\ k = 1
    /\ max_mult = 2
    /\ read_cloud = NoCloud

IdleIndex ==
    /\ cloud_contig = CloudContig(0)
    /\ added = EmptyCounter

IdleMain ==
    /\ nrepeat = 0
    /\ q_ids = <<>>
    /\ certain_rids = <<>>
    /\ all_read_kmer_clouds = <<>>
    /\ locations = <<>>
    /\ cloud_contig_minfreq = 0
    /\ n_threads = 1
    /\ variants = <<>>
    /\ tasks = <<>>
    /\ completed = <<>>
    /\ best_variant = <<>>
    /\ phase = "idle"
    /\ repatched = NotRepatched
    /\ mapped = <<>>

\* get_best_variant is entered (line 151) and has built variants (line 152)
Called ==
    /\ variants = product(nrepeat)
    /\ tasks = [t \in 1..Len(product(nrepeat)) |-> PendingTask]
    /\ completed = <<>>
    /\ best_variant = <<>>
    /\ phase = "search"
    /\ repatched = NotRepatched
    /\ mapped = locations

\* the patch step on its own: any variant, any list of ambiguous ids
InitPatch ==
    /\ nrepeat \in 0..MaxRepeat
    /\ best_variant \in [1..nrepeat -> {0, 1}]
    /\ q_ids \in DistinctSeqs(AmbiguousReads)
    /\ locations \in MappedTables
    /\ certain_rids = <<>>
    /\ all_read_kmer_clouds = <<>>
    /\ cloud_contig_minfreq = 0
    /\ n_threads = 1
    /\ variants = <<>>
    /\ tasks = <<>>
    /\ completed = <<>>
    /\ phase = "returned"
    /\ repatched = NotRepatched
    /\ mapped = locations

\* main has mapped the reads and calls get_best_variant (line 231), which
\* leaves n_threads at its default
InitMain ==
    /\ nrepeat \in 0..MaxRepeat
    /\ q_ids \in DistinctSeqs(AmbiguousReads)
    /\ certain_rids \in DistinctSeqs(CertainReads)
    /\ all_read_kmer_clouds \in KmerCloudTables
    /\ locations \in MappedTables
    /\ cloud_contig_minfreq \in 0..MaxCutoff
    /\ n_threads = 1
    /\ Called

\* get_best_variant called with a pool of n_threads workers
InitThreads ==
    /\ nrepeat \in 0..MaxRepeat
    /\ q_ids = <<"q1", "q2">>
    /\ certain_rids = <<"c1">>
    /\ all_read_kmer_clouds \in
          {c \in KmerCloudTables : c["c1"].kmers = <<{"a", "b"}>>}
    /\ locations \in MappedTables
    /\ cloud_contig_minfreq \in 0..MaxCutoff
    /\ n_threads \in 1..MaxThreads
    /\ Called

Init == IdleCloud /\ IdleIndex /\ InitMain

Next ==
    \/ \E t \in DOMAIN tasks : Dispatch(t)
    \/ \E t \in DOMAIN tasks : PlaceAmbiguous(t)
    \/ \E t \in DOMAIN tasks : Finish(t)
    \/ Return
    \/ PatchLocations
    \/ FilterLocations

Spec == Init /\ [][Next]_vars

InitT == IdleCloud /\ IdleIndex /\ InitThreads

SpecThreads == InitT /\ [][Next]_vars

InitP == IdleCloud /\ IdleIndex /\ InitPatch

NextPatch ==
    \/ PatchLocations
    \/ FilterLocations
    \/ PatchAgain

SpecPatch == InitP /\ [][NextPatch]_vars

InitC == InitCloud /\ IdleIndex /\ IdleMain

NextCloud == BuildCloud

SpecCloud == InitC /\ [][NextCloud]_vars

InitI == IdleCloud /\ InitIndex /\ IdleMain

NextIndex == \E cloud \in IndexClouds, position \in Positions : AddRead(cloud, position)

SpecIndex == InitI /\ [][NextIndex]_vars

----------------------------------------------------------------------------
(* Reference definitions used by the properties *)

\* occurrences of kmer among the length-kk windows of a segment; there are
\* no windows of a negative length
Occurrences(nucl_segment, kmer, kk) ==
    IF kk < 0 \/ Len(kmer) # kk THEN 0
    ELSE Cardinality({p \in 1..(Len(nucl_segment) - kk + 1) :
                         \A j \in 1..kk : nucl_segment[p + j - 1] = kmer[j]})

\* occurrences of kmer, at its own length, in the raw sequence of a unit
RawOccurrences(nucl_segment, kmer) ==
    Cardinality({p \in 1..(Len(nucl_segment) - Len(kmer) + 1) :
                    \A j \in 1..Len(kmer) : nucl_segment[p + j - 1] = kmer[j]})

\* units of the read in which kmer occurs exactly once
UnitsWithOnce(mr, kmer, kk) ==
    {j \in 1..Len(mr.monoinstances) : Occurrences(mr.monoinstances[j], kmer, kk) = 1}

\* count of kmer at pos, read off the bag of placements
PlacedCount(bag, pos, kmer) ==
    SumOver([pl \in DOMAIN bag |->
                IF pl.position = pos
                THEN bag[pl] * CounterGet(pl.cloud.all_kmers, kmer) ELSE 0],
            DOMAIN bag)

PlacedKmers(bag) == UNION {DOMAIN pl.cloud.all_kmers : pl \in DOMAIN bag}

PlacedPositions(bag) == {pl.position : pl \in DOMAIN bag}

PlacedTotal(bag, kmer) ==
    SumOver([p \in PlacedPositions(bag) |-> PlacedCount(bag, p, kmer)],
            PlacedPositions(bag))

\* the score a bag of placements determines
PlacedScore(bag, min_freq, max_freq) ==
    Cardinality({kmer \in PlacedKmers(bag) :
        /\ PlacedTotal(bag, kmer) > min_freq
        /\ Cardinality({p \in PlacedPositions(bag) :
                           PlacedCount(bag, p, kmer) > max_freq}) = 1})

\* the placements var_assess_quality makes for the certain reads
CertainPlacements ==
    {[cloud |-> all_read_kmer_clouds[certain_rids[i]],
      position |-> mapped[certain_rids[i]][1][1]] : i \in DOMAIN certain_rids}

\* ... and for the ambiguous reads under a variant
AmbiguousPlacements(variant) ==
    {[cloud |-> all_read_kmer_clouds[q_ids[i]],
      position |-> mapped[q_ids[i]][variant[i] + 1][1]] :
        i \in 1..Min(Len(variant), Len(q_ids))}

SetBag(S) == [pl \in S |-> 1]

RECURSIVE Pow2(_)
Pow2(n) == IF n = 0 THEN 1 ELSE 2 * Pow2(n - 1)

\* the n-bit vector of m, first bit most significant
Bits(m, n) == [i \in 1..n |-> (m \div Pow2(n - i)) % 2]

LexLeq(v, w) ==
    \/ v = w
    \/ \E i \in DOMAIN v :
          /\ \A j \in 1..(i - 1) : v[j] = w[j]
          /\ v[i] < w[i]

AllZero == [i \in 1..nrepeat |-> 0]

Searched == phase \in {"returned", "patched", "filtered"}

----------------------------------------------------------------------------
(* Properties of get_best_variant and var_assess_quality, under Spec *)

Score(t) == tasks[t].score

\* the second example of section 8 of the design document
ExampleInputs ==
    /\ nrepeat = 2
    /\ q_ids = <<"q1", "q2">>
    /\ certain_rids = <<"c1">>
    /\ mapped["c1"] = <<Loc100>>
    /\ all_read_kmer_clouds["c1"].kmers = <<{"a", "b"}>>
    /\ all_read_kmer_clouds["q2"].kmers = <<{"b"}>>
    /\ cloud_contig_minfreq = 1

\* C1: once get_best_variant has returned, variants holds the 2^nrepeat
\* vectors of {0,1}^nrepeat in product order (first bit slowest), each was
\* evaluated exactly once, the returned vector has a score >= every other
\* score and is the lexicographically smallest vector with that score; on the
\* inputs of the example it is (0, 0) with score 2.
C1_EnumerationAndFirstMaximum ==
    Searched =>
        /\ Len(variants) = Pow2(nrepeat)
        /\ \A i \in DOMAIN variants : variants[i] = Bits(i - 1, nrepeat)
        /\ Len(completed) = Pow2(nrepeat)
        /\ \A t \in DOMAIN variants :
              Cardinality({i \in DOMAIN completed : completed[i] = t}) = 1
        /\ \E a \in DOMAIN variants :
              /\ best_variant = variants[a]
              /\ \A j \in DOMAIN variants : Score(j) <= Score(a)
              /\ \A j \in DOMAIN variants :
                    Score(j) = Score(a) => LexLeq(best_variant, variants[j])
        /\ ExampleInputs => best_variant = <<0, 0>> /\ Score(1) = 2

\* the search returned with the maximum shared by several vectors and not by all
C1_Witness ==
    /\ Searched
    /\ nrepeat = MaxRepeat
    /\ \E a, j, l \in DOMAIN variants :
          /\ best_variant = variants[a]
          /\ j # a
          /\ Score(j) = Score(a)
          /\ Score(l) < Score(a)

\* the scores a single worker computes, variant after variant
SequentialScores ==
    [i \in DOMAIN variants |->
        var_assess_quality(variants[i], q_ids, certain_rids,
                           all_read_kmer_clouds, mapped, cloud_contig_minfreq)]

C2_Inv ==
    /\ Searched =>
          /\ \A t \in DOMAIN tasks : tasks[t].pc = "done"
          /\ best_variant = variants[argmax(SequentialScores)]
    /\ \A t \in DOMAIN tasks :
          tasks[t].pc = "running" =>
              tasks[t].cloud_contig =
                  AddAmbiguous(AddCertain(CloudContig(cloud_contig_minfreq),
                                          certain_rids, all_read_kmer_clouds,
                                          mapped, 1),
                               variants[t], SubSeq(q_ids, 1, tasks[t].i - 1),
                               all_read_kmer_clouds, mapped, 1)

C2_Frame ==
    phase = "search" =>
        UNCHANGED <<q_ids, certain_rids, all_read_kmer_clouds, locations>>

\* C2: with any number of workers and under every interleaving and completion
\* order, get_best_variant returns only after every evaluation has finished
\* and returns the variant the sequential run returns; every running
\* evaluation's index holds exactly its own placements, and no step of the
\* search writes the shared inputs.
C2_SchedulingIndependence == [](C2_Inv) /\ [][C2_Frame]_vars

\* the search returned after evaluations ended out of enumeration order, with
\* scores that differ
C2_Witness ==
    /\ phase = "returned"
    /\ n_threads > 1
    /\ \E i \in DOMAIN completed : completed[i] # i
    /\ \E t, u \in DOMAIN tasks : Score(t) # Score(u)

AllNonPositive == \A t \in DOMAIN tasks : Score(t) <= 0

\* C3 as stated: if every variant scores <= 0 the all-zero vector is returned
C3_AllZeroWhenNonPositive ==
    (Searched /\ AllNonPositive) => best_variant = AllZero

\* C3, amended: if every variant scores <= 0 the first-enumerated vector of
\* maximum score is returned; that is the all-zero vector exactly when no
\* vector scores strictly more than the all-zero vector.
C3_FirstMaximumWhenNonPositive ==
    (Searched /\ AllNonPositive) =>
        /\ (best_variant = AllZero) <=> (\A j \in DOMAIN tasks : Score(j) <= Score(1))
        /\ \E a \in DOMAIN variants :
              /\ best_variant = variants[a]
              /\ \A j \in DOMAIN variants : Score(j) <= Score(a)
              /\ \A j \in 1..(a - 1) : Score(j) < Score(a)

\* every score is <= 0 and a non-zero vector scores more than the all-zero one
C3_Witness ==
    /\ Searched
    /\ AllNonPositive
    /\ \E j \in DOMAIN tasks : Score(j) > Score(1)

\* C8: the value a finished var_assess_quality call returned is the score of
\* the certain placements plus the ambiguous placements its variant selects
\* (bit 0: candidate 0, bit 1: candidate 1; start coordinates), minus the
\* score of the certain placements alone, which is its base_score; it is the
\* value of the function on the call's arguments.
C8_MarginalScore ==
    \A t \in DOMAIN tasks :
        tasks[t].pc = "done" =>
            /\ tasks[t].base_score =
                  PlacedScore(SetBag(CertainPlacements), cloud_contig_minfreq, 0)
            /\ Score(t) =
                  PlacedScore(SetBag(CertainPlacements
                                     \cup AmbiguousPlacements(variants[t])),
                              cloud_contig_minfreq, 0)
                  - PlacedScore(SetBag(CertainPlacements), cloud_contig_minfreq, 0)
            /\ Score(t) = SequentialScores[t]

\* a finished call whose variant holds a 1 for a placed read, with a
\* baseline above 0 and a marginal score other than 0
C8_Witness ==
    \E t \in DOMAIN tasks :
        /\ tasks[t].pc = "done"
        /\ tasks[t].base_score > 0
        /\ Score(t) # 0
        /\ \E i \in 1..Min(Len(variants[t]), Len(q_ids)) : variants[t][i] = 1

\* C10 as stated: for nrepeat = 0 the single evaluation's score is the
\* certain-read baseline score
C10_EmptySearchScoreIsBaseline ==
    (nrepeat = 0 /\ Searched) =>
        /\ variants = << <<>> >>
        /\ best_variant = <<>>
        /\ Score(1) = PlacedScore(SetBag(CertainPlacements), cloud_contig_minfreq, 0)
        /\ \A r \in DOMAIN locations : locations[r] = mapped[r]

\* C10, amended: for nrepeat = 0 the run is valid: variants holds the empty
\* assignment alone, it is evaluated and returned, the index of that
\* evaluation scores exactly the certain-read baseline at its end, so the
\* value the evaluation returns is 0; patching raises nothing and changes no
\* read's location list.
C10_EmptySearch ==
    /\ phase # "raised"
    /\ (nrepeat = 0 /\ Searched) =>
          /\ variants = << <<>> >>
          /\ completed = <<1>>
          /\ best_variant = <<>>
          /\ tasks[1].base_score =
                PlacedScore(SetBag(CertainPlacements), cloud_contig_minfreq, 0)
          /\ get_score(tasks[1].cloud_contig, 0) = tasks[1].base_score
          /\ Score(1) = 0
          /\ phase = "patched" => locations = mapped
          /\ \A r \in DOMAIN locations : locations[r] = mapped[r]

\* an empty search over certain reads whose baseline is above 0, patched
C10_Witness ==
    /\ nrepeat = 0
    /\ phase = "filtered"
    /\ tasks[1].base_score > 0
    /\ q_ids # <<>>

----------------------------------------------------------------------------
(* Properties of the patch step, under SpecPatch *)

PatchedLen == Min(Len(best_variant), Len(q_ids))

PatchedReads == {q_ids[i] : i \in 1..PatchedLen}

\* C9: the patch step on a freshly mapped table never raises; exactly the
\* first min(len(variant), len(q_ids)) ambiguous reads are patched, each to
\* the singleton of the candidate its bit selects, every other list is left
\* as mapped; the filtered table holds exactly the reads whose list has
\* length 1 after patching, so all its entries are singletons, certain reads
\* keep their location and ambiguous reads beyond the prefix are absent.
C9_PatchFrame ==
    /\ phase # "raised"
    /\ phase = "patched" =>
          /\ DOMAIN locations = DOMAIN mapped
          /\ \A i \in 1..PatchedLen :
                locations[q_ids[i]] = << mapped[q_ids[i]][best_variant[i] + 1] >>
          /\ \A r \in DOMAIN mapped \ PatchedReads : locations[r] = mapped[r]
    /\ phase \in {"filtered", "repatched"} =>
          /\ DOMAIN locations =
                PatchedReads \cup {r \in DOMAIN mapped : Len(mapped[r]) = 1}
          /\ \A r \in DOMAIN locations : Len(locations[r]) = 1
          /\ \A r \in DOMAIN mapped :
                Len(mapped[r]) = 1 => r \in DOMAIN locations /\ locations[r] = mapped[r]
          /\ \A i \in 1..PatchedLen :
                locations[q_ids[i]] = << mapped[q_ids[i]][best_variant[i] + 1] >>
          /\ \A i \in (PatchedLen + 1)..Len(q_ids) : q_ids[i] \notin DOMAIN locations

\* a table patched and filtered with a variant shorter than the id list and
\* holding a 1
C9_Witness ==
    /\ phase = "filtered"
    /\ Len(best_variant) >= 1
    /\ Len(best_variant) < Len(q_ids)
    /\ best_variant[1] = 1

\* C4 as stated: the patch step applied a second time with the same variant
\* raises nothing and yields the table of the first application
C4_PatchIdempotent ==
    phase = "repatched" =>
        /\ ~repatched.raised
        /\ repatched.locations = locations

\* C4, amended: the second application raises (index out of range on the
\* singleton list) exactly when a patched read's bit is 1; with every patched
\* bit 0 it raises nothing and yields the table of the first application.
C4_PatchIdempotentOnZeroBits ==
    phase = "repatched" =>
        /\ repatched.raised <=> (\E i \in 1..PatchedLen : best_variant[i] = 1)
        /\ ~repatched.raised => repatched.locations = locations

\* the patch step applied twice, with reads patched and every patched bit 0
C4_Witness ==
    /\ phase = "repatched"
    /\ PatchedLen >= 1
    /\ \A i \in 1..PatchedLen : best_variant[i] = 0
    /\ ~repatched.raised
    /\ repatched.locations = locations

----------------------------------------------------------------------------
(* Properties of the index and of get_score, under SpecIndex *)

IndexKmers == UNION {DOMAIN c.all_kmers : c \in IndexClouds}

\* C5: whatever the order of the add_read calls, the index is determined by
\* the bag of placements: each count is the number of copies placed there, a
\* position is registered once however often it was added, freq_kmers holds
\* the k-mers whose total exceeds the cutoff; hence get_score is the score
\* the bag determines.
C5_OrderIndependence ==
    /\ \A kmer \in IndexKmers :
          /\ \A p \in Positions :
                CloudCount(cloud_contig.clouds, p, kmer) = PlacedCount(added, p, kmer)
          /\ KmerPositions(cloud_contig, kmer) =
                {p \in Positions : PlacedCount(added, p, kmer) > 0}
          /\ kmer \in cloud_contig.freq_kmers <=>
                PlacedTotal(added, kmer) > cloud_contig.min_cloud_kmer_freq
    /\ cloud_contig.freq_kmers \subseteq IndexKmers
    /\ \A mf \in 0..MaxMaxFreq :
          get_score(cloud_contig, mf) =
              PlacedScore(added, cloud_contig.min_cloud_kmer_freq, mf)

\* several different placements were added, one of them more than once, and
\* the score is above 0
C5_Witness ==
    /\ Cardinality(DOMAIN added) >= 2
    /\ \E pl \in DOMAIN added : added[pl] >= 2
    /\ get_score(cloud_contig, 0) > 0

AbovePositions(cc, kmer, mf) ==
    {p \in KmerPositions(cc, kmer) : CloudCount(cc.clouds, p, kmer) > mf}

\* what one k-mer adds to the score
Contribution(cc, kmer, mf) ==
    get_score([cc EXCEPT !.freq_kmers = @ \cap {kmer}], mf)

\* C6: in every reachable index state get_score(max_freq) is the number of
\* k-mers of freq_kmers above max_freq at exactly one of their positions; a
\* k-mer above it at two or more positions, or at none, adds 0. With count 3
\* at 100 and 3 at 200 the k-mer adds 0 for max_freq = 2, and still 0 with
\* count 4 at 100.
C6_ScoreIsUniquePositionCount ==
    /\ \A mf \in 0..MaxMaxFreq :
          /\ get_score(cloud_contig, mf) =
                Cardinality({kmer \in cloud_contig.freq_kmers :
                    Cardinality(AbovePositions(cloud_contig, kmer, mf)) = 1})
          /\ \A kmer \in cloud_contig.freq_kmers :
                Contribution(cloud_contig, kmer, mf) =
                    IF Cardinality(AbovePositions(cloud_contig, kmer, mf)) = 1
                    THEN 1 ELSE 0
    /\ \A kmer \in cloud_contig.freq_kmers :
          (/\ CloudCount(cloud_contig.clouds, 100, kmer) \in {3, 4}
           /\ CloudCount(cloud_contig.clouds, 200, kmer) = 3)
          => Contribution(cloud_contig, kmer, 2) = 0

\* a frequent k-mer counted 4 at position 100 and 3 at position 200
C6_Witness ==
    \E kmer \in cloud_contig.freq_kmers :
        /\ CloudCount(cloud_contig.clouds, 100, kmer) = 4
        /\ CloudCount(cloud_contig.clouds, 200, kmer) = 3

----------------------------------------------------------------------------
(* Properties of ReadKMerCloud.from_monoread, under SpecCloud *)

AllKmers == [1..k -> Nucleotides]

Units == monoread.monoinstances

\* the k-mers the property speaks about for unit i: the sequences of length k
\* and whatever the builder put into the unit's set
Candidates(i) == AllKmers \cup read_cloud.kmers[i]

CloudMembership ==
    /\ read_cloud.r_id = monoread.seq_id
    /\ Len(read_cloud.kmers) = Len(Units)
    /\ \A i \in 1..Len(Units) :
          /\ \A kmer \in Candidates(i) :
                kmer \in read_cloud.kmers[i] <=>
                    /\ Occurrences(Units[i], kmer, k) = 1
                    /\ Cardinality(UnitsWithOnce(monoread, kmer, k)) < max_mult
          /\ \A kmer \in read_cloud.kmers[i] : RawOccurrences(Units[i], kmer) <= 1
          /\ Len(Units[i]) < k => read_cloud.kmers[i] = {}
    /\ max_mult = 2 =>
          \A i, j \in 1..Len(Units) :
              i # j => read_cloud.kmers[i] \cap read_cloud.kmers[j] = {}

\* C7: for every read, every k and every ceiling, from_monoread returns one
\* set per unit, in unit order; a k-mer is in unit i's set iff it occurs
\* exactly once among the length-k windows of unit i and the number of units
\* in which it occurs exactly once is < max_mult. So no k-mer of a set occurs
\* twice in its unit's raw sequence, a unit shorter than k has an empty set,
\* and with ceiling 2 the sets of a read are pairwise disjoint.
C7_CloudMembership == read_cloud # NoCloud => CloudMembership

\* C7 for k >= 0 only, where the slices of line 94 are the length-k windows
C7_CloudMembershipNonNegativeK ==
    (read_cloud # NoCloud /\ k >= 0) => CloudMembership

\* a read built with k >= 0 and ceiling 2: one unit keeps a k-mer, another
\* k-mer is dropped for standing once in two units, and one k-mer repeats in
\* its unit
C7_Witness ==
    /\ read_cloud # NoCloud
    /\ k >= 0
    /\ max_mult = 2
    /\ \E i \in 1..Len(Units) : read_cloud.kmers[i] # {}
    /\ \E kmer \in AllKmers : Cardinality(UnitsWithOnce(monoread, kmer, k)) = 2
    /\ \E i \in 1..Len(Units), kmer \in AllKmers : Occurrences(Units[i], kmer, k) > 1

====
